---- MODULE Spec2Model ----
(***************************************************************************)
(* Blackjack game core: cards.py (Card, Deck), hand_logic.py               *)
(* (calculate_hand_value, compare_hands) and game.py (BlackjackGame).      *)
(*                                                                         *)
(* A card is a record [suit, rank]; the deck is the Python list            *)
(* Deck.cards, dealt from its end (list.pop()).  random.shuffle is an      *)
(* input of the program: a shuffle draws one order out of a bounded        *)
(* family of orders of the 52 cards (ShuffleOrder).  A ValueError raised   *)
(* by Deck.deal is not caught anywhere in the repository, so it ends the   *)
(* program: err records it and no operation runs after it.                 *)
(*                                                                         *)
(* The game's operations carry no guard but the code's own, and Next calls *)
(* every one of them in every state.  window.py calls each operation only  *)
(* in some states (InTurn); a call in any other state counts in            *)
(* out_of_turn, and MaxOutOfTurn bounds how many of those a run makes.     *)
(* out_of_turn = 0 is normal operation: the rounds as the window drives    *)
(* them.                                                                   *)
(***************************************************************************)
EXTENDS Integers, Sequences, FiniteSets, TLC

VARIABLES
    starting_balance,   \* BlackjackGame.starting_balance
    target_balance,     \* BlackjackGame.target_balance
    mode,               \* BlackjackGame.mode
    balance,            \* BlackjackGame.balance
    current_bet,        \* BlackjackGame.current_bet
    deck,               \* BlackjackGame.deck.cards
    player_hand,        \* BlackjackGame.player_hand
    dealer_hand,        \* BlackjackGame.dealer_hand
    game_state,         \* BlackjackGame.game_state
    result_message,     \* BlackjackGame.result_message
    ret,                \* the last call: operation, arguments, returned value
    err,                \* "none", or the exception that ended the program
    out_of_turn         \* calls made so far in a state the window never makes them in

vars == <<starting_balance, target_balance, mode, balance, current_bet, deck,
          player_hand, dealer_hand, game_state, result_message, ret, err,
          out_of_turn>>

\* The fields of the BlackjackGame object (everything but the call record).
game == <<starting_balance, target_balance, mode, balance, current_bet, deck,
          player_hand, dealer_hand, game_state, result_message>>

config == <<starting_balance, target_balance, mode>>

-----------------------------------------------------------------------------
(* Bounds of the model *)

\* Number of shuffle orders random.shuffle draws from.
NumOrders == 3

\* The starting balance of classic mode.
StartBalance == 1

\* The target balance of classic mode.
TargetBalance == 3

\* place_bet is called with amounts -1 .. MaxBet.
MaxBet == 2

\* place_bet is called while the balance is at most MaxBalance.
MaxBalance == 2

\* Calls a run makes in a state the window never makes them in.
MaxOutOfTurn == 1

\* The longest hand calculate_hand_value is applied to on its own.
MaxHandLen == 5

\* The largest total compare_hands is applied to on its own.
MaxTotal == 31

-----------------------------------------------------------------------------
(* cards.py *)

\* Suit: the short names, in the enum's order.
Suits == <<"H", "D", "C", "S">>

\* Rank: the display strings, in the enum's order.
Ranks == <<"2", "3", "4", "5", "6", "7", "8", "9", "10", "J", "Q", "K", "A">>

\* Rank.base_value
base_value(rank) ==
    CASE rank = "2" -> 2
      [] rank = "3" -> 3
      [] rank = "4" -> 4
      [] rank = "5" -> 5
      [] rank = "6" -> 6
      [] rank = "7" -> 7
      [] rank = "8" -> 8
      [] rank = "9" -> 9
      [] rank = "10" -> 10
      [] rank = "J" -> 10
      [] rank = "Q" -> 10
      [] rank = "K" -> 10
      [] rank = "A" -> 11

Card(suit, rank) == [suit |-> suit, rank |-> rank]

\* Card.get_value
get_value(card, allow_ace_as_one) ==
    IF card.rank = "A" /\ allow_ace_as_one THEN 1 ELSE base_value(card.rank)

\* Deck.__init__ / Deck._build: suits outermost, ranks innermost.
NewDeck ==
    [i \in 1..(Len(Suits) * Len(Ranks)) |->
        Card(Suits[((i - 1) \div Len(Ranks)) + 1], Ranks[((i - 1) % Len(Ranks)) + 1])]

\* Deck.remaining
remaining(cards) == Len(cards)

\* The card at the other end of the list returned.
DealCard_First(cards) == cards[1]

\* Deck.deal on a non-empty list: list.pop() returns the last card ...
DealCard(cards) == cards[Len(cards)]

\* A deal that leaves the dealt card in the list.
DealRest_Keep(cards) == cards

\* ... and removes it.
DealRest(cards) == SubSeq(cards, 1, Len(cards) - 1)

-----------------------------------------------------------------------------
(* Deck.shuffle: random.shuffle(self.cards).  The order it leaves is an    *)
(* input; these are the orders the model draws from, written as the ranks  *)
(* in the order they will be dealt (the list's end first).  The j-th card  *)
(* of a rank in an order gets the j-th suit.                               *)

\* Ten rounds use 42 cards; the last ten cards are small.
DealOrder1 ==
    <<"K", "Q", "K", "7",
      "J", "J", "Q", "7", "10",
      "5", "5", "J", "7", "9",
      "6", "6", "10", "7",
      "4", "4", "K", "8",
      "4", "4", "Q", "8",
      "5", "5", "J", "8",
      "6", "6", "10", "8",
      "10", "9", "K", "9",
      "A", "3", "Q", "9",
      "2", "2", "2", "2", "3", "3", "3", "A", "A", "A">>

\* A player natural, a dealer natural, a dealer soft 17, dealer draws.
DealOrder2 ==
    <<"A", "K", "9", "9",
      "10", "7", "10", "9",
      "6", "5", "K", "A",
      "8", "8", "A", "6", "5",
      "10", "6", "7", "9", "K",
      "J", "8", "10", "8",
      "7", "7", "2", "3", "4", "2", "3", "3",
      "A", "2", "Q", "J", "6",
      "Q", "Q", "K", "5", "4",
      "J", "J", "5", "4", "4", "3", "2", "Q">>

\* Two naturals at once, soft hands on both sides.
DealOrder3 ==
    <<"A", "Q", "J", "A",
      "A", "5", "A", "6", "9", "8",
      "K", "9", "10", "6", "5",
      "10", "10", "9", "8",
      "K", "K", "Q", "7",
      "J", "7", "Q", "10",
      "2", "2", "3", "3", "4", "4", "5",
      "7", "7", "8", "9",
      "2", "3", "J", "Q",
      "4", "4", "5", "6", "6",
      "2", "3", "8", "J", "K">>

\* How many of seq[1..i] have the rank seq[i].
Occurrence(seq, i) == Cardinality({j \in 1..i : seq[j] = seq[i]})

\* The list that deals the ranks of seq in order: the list's end is dealt first.
FromDealOrder(seq) ==
    [i \in 1..Len(seq) |->
        LET j == Len(seq) + 1 - i
        IN  Card(Suits[Occurrence(seq, j)], seq[j])]

\* Any further order: the cards of the list taken with a stride of 7.
StrideOrder(cards, k) ==
    [i \in 1..Len(cards) |-> cards[(((i - 1) * 7 + k) % Len(cards)) + 1]]

\* The k-th order of the family.
ShuffleOrder(k) ==
    CASE k = 1 -> FromDealOrder(DealOrder1)
      [] k = 2 -> FromDealOrder(DealOrder2)
      [] k = 3 -> FromDealOrder(DealOrder3)
      [] OTHER -> StrideOrder(NewDeck, k)

\* Where the card x stands in the list seq.
IndexIn(seq, x) == CHOOSE j \in 1..Len(seq) : seq[j] = x

\* Deck.shuffle with the random source drawing order k: the cards of the
\* list (a freshly built deck in every call the code makes) rearranged as
\* the order rearranges a fresh deck.
shuffle(cards, k) ==
    LET order == ShuffleOrder(k)
    IN  [i \in 1..Len(cards) |-> cards[IndexIn(NewDeck, order[i])]]

\* A shuffle changes neither membership nor count.
IsPermutation(a, b) ==
    /\ Len(a) = Len(b)
    /\ \A i \in 1..Len(a) : \E j \in 1..Len(b) : a[i] = b[j]
    /\ \A i \in 1..Len(b) : \E j \in 1..Len(a) : b[i] = a[j]

-----------------------------------------------------------------------------
(* hand_logic.py *)

RECURSIVE SumValues(_)
\* sum(card.get_value(allow_ace_as_one=False) for card in cards)
SumValues(cards) ==
    IF cards = <<>> THEN 0
    ELSE get_value(cards[1], FALSE) + SumValues(Tail(cards))

\* sum(1 for card in cards if card.rank == Rank.ACE)
NumAces(cards) == Cardinality({i \in 1..Len(cards) : cards[i].rank = "A"})

\* The loop run once at most: a single Ace converted.
ConvertAces_Once(total, num_aces) ==
    IF total > 21 /\ num_aces > 0
    THEN <<total - 10, num_aces - 1>>
    ELSE <<total, num_aces>>

\* Every Ace converted as soon as the total is above 21.
ConvertAces_Eager(total, num_aces) ==
    IF total > 21 /\ num_aces > 0
    THEN <<total - 10 * num_aces, 0>>
    ELSE <<total, num_aces>>

RECURSIVE ConvertAces(_, _)
\* while total > 21 and num_aces > 0: total -= 10; num_aces -= 1
ConvertAces(total, num_aces) ==
    IF total > 21 /\ num_aces > 0
    THEN ConvertAces(total - 10, num_aces - 1)
    ELSE <<total, num_aces>>

\* The flag set for any hand that holds an Ace.
calculate_hand_value_AnyAce(cards) ==
    LET r == ConvertAces(SumValues(cards), NumAces(cards))
    IN  <<r[1], NumAces(cards) > 0>>

\* calculate_hand_value(cards) -> (total, has_ace)
calculate_hand_value(cards) ==
    LET r == ConvertAces(SumValues(cards), NumAces(cards))
    IN  <<r[1], r[2] > 0>>

\* The comparison with a player's 21 taken for a bust.
compare_hands_BustAt21(player_total, dealer_total) ==
    IF player_total >= 21 THEN <<"bust", "Bust! Dealer wins.">>
    ELSE IF dealer_total > 21 THEN <<"win", "Dealer busts! You win.">>
    ELSE IF player_total = dealer_total THEN <<"push", "Push! It's a tie.">>
    ELSE IF player_total > dealer_total THEN <<"win", "You win!">>
    ELSE <<"lose", "Dealer wins.">>

\* The comparison with the dealer's bust tested before the player's.
compare_hands_DealerFirst(player_total, dealer_total) ==
    IF dealer_total > 21 THEN <<"win", "Dealer busts! You win.">>
    ELSE IF player_total > 21 THEN <<"bust", "Bust! Dealer wins.">>
    ELSE IF player_total = dealer_total THEN <<"push", "Push! It's a tie.">>
    ELSE IF player_total > dealer_total THEN <<"win", "You win!">>
    ELSE <<"lose", "Dealer wins.">>

\* compare_hands(player_total, dealer_total) -> (result, message)
compare_hands(player_total, dealer_total) ==
    IF player_total > 21 THEN <<"bust", "Bust! Dealer wins.">>
    ELSE IF dealer_total > 21 THEN <<"win", "Dealer busts! You win.">>
    ELSE IF player_total = dealer_total THEN <<"push", "Push! It's a tie.">>
    ELSE IF player_total > dealer_total THEN <<"win", "You win!">>
    ELSE <<"lose", "Dealer wins.">>

-----------------------------------------------------------------------------
(* game.py: BlackjackGame *)

\* The modes the window constructs a game with.
Modes == {"practice", "classic", "custom"}

\* The amounts place_bet is called with.
Amounts == -1..MaxBet

\* A call's record: the operation, its arguments, the value it returned
\* (<<>> for None, and for a call that raised).
Call(op, args, val) == [op |-> op, args |-> args, val |-> val]

\* The constructor's arguments <<mode, starting_balance, target_balance>>, as
\* the window's mode selection passes them: classic starts with money and a
\* target above it (2000 and 25000 in the source, scaled down here),
\* practice and custom start with 0 and target 0.
Configs ==
    {<<"classic", StartBalance, TargetBalance>>,
     <<"practice", 0, 0>>,
     <<"custom", 0, 0>>}

\* __init__: a fresh Deck, shuffled; empty hands; state betting.
Init ==
    /\ \E c \in Configs :
          /\ mode = c[1]
          /\ starting_balance = c[2]
          /\ target_balance = c[3]
    /\ balance = starting_balance
    /\ out_of_turn = 0
    /\ current_bet = 0
    /\ \E k \in 1..NumOrders : deck = shuffle(NewDeck, k)
    /\ player_hand = <<>>
    /\ dealer_hand = <<>>
    /\ game_state = "betting"
    /\ result_message = ""
    /\ ret = Call("__init__", <<>>, <<>>)
    /\ err = "none"

\* A reset that keeps a low shoe.
ReshuffleIfLow_Keep(cards, k) == cards

\* if self.deck.remaining() < 10: self.deck = Deck(); self.deck.shuffle()
ReshuffleIfLow(cards, k) ==
    IF remaining(cards) < 10 THEN shuffle(NewDeck, k) ELSE cards

reset_for_new_hand ==
    /\ err = "none"
    /\ player_hand' = <<>>
    /\ dealer_hand' = <<>>
    /\ game_state' = "betting"
    /\ result_message' = ""
    /\ current_bet' = 0
    /\ \E k \in 1..NumOrders : deck' = ReshuffleIfLow(deck, k)
    /\ ret' = Call("reset_for_new_hand", <<>>, <<>>)
    /\ UNCHANGED <<config, balance, err>>

\* place_bet with the balance check made after the amount checks.
PlaceBetResult_AmountFirst(m, bal, amount) ==
    IF m = "practice" THEN <<TRUE, "Practice mode: Dealing cards...">>
    ELSE IF amount <= 0 THEN <<FALSE, "Bet must be greater than 0.">>
    ELSE IF amount > bal
         THEN <<FALSE, "Insufficient balance. You have " \o ToString(bal) \o ".">>
    ELSE IF bal <= 0 THEN <<FALSE, "Game over. Reset balance to play again.">>
    ELSE <<TRUE, "Bet placed: " \o ToString(amount) \o ". Dealing cards...">>

\* The checks without the one of the amount against the balance.
PlaceBetResult_NoBalanceCheck(m, bal, amount) ==
    IF m = "practice" THEN <<TRUE, "Practice mode: Dealing cards...">>
    ELSE IF bal <= 0 THEN <<FALSE, "Game over. Reset balance to play again.">>
    ELSE IF amount <= 0 THEN <<FALSE, "Bet must be greater than 0.">>
    ELSE <<TRUE, "Bet placed: " \o ToString(amount) \o ". Dealing cards...">>

\* The checks of a wagering mode applied in every mode.
PlaceBetResult_WagerAlways(m, bal, amount) ==
    IF bal <= 0 THEN <<FALSE, "Game over. Reset balance to play again.">>
    ELSE IF amount <= 0 THEN <<FALSE, "Bet must be greater than 0.">>
    ELSE IF amount > bal
         THEN <<FALSE, "Insufficient balance. You have " \o ToString(bal) \o ".">>
    ELSE <<TRUE, "Bet placed: " \o ToString(amount) \o ". Dealing cards...">>

\* The value place_bet returns, in the order of its checks.
PlaceBetResult(m, bal, amount) ==
    IF m = "practice" THEN <<TRUE, "Practice mode: Dealing cards...">>
    ELSE IF bal <= 0 THEN <<FALSE, "Game over. Reset balance to play again.">>
    ELSE IF amount <= 0 THEN <<FALSE, "Bet must be greater than 0.">>
    ELSE IF amount > bal
         THEN <<FALSE, "Insufficient balance. You have " \o ToString(bal) \o ".">>
    ELSE <<TRUE, "Bet placed: " \o ToString(amount) \o ". Dealing cards...">>

place_bet(amount) ==
    LET r == PlaceBetResult(mode, balance, amount)
    IN  /\ err = "none"
        /\ ret' = Call("place_bet", <<amount>>, r)
        /\ IF r[1]
           THEN /\ current_bet' = (IF mode = "practice" THEN 0 ELSE amount)
                /\ game_state' = "dealing"
           ELSE UNCHANGED <<current_bet, game_state>>
        /\ UNCHANGED <<config, balance, deck, player_hand, dealer_hand,
                       result_message, err>>

\* The 3:2 payout rounded up instead of truncated.
NaturalPayout_RoundUp(bet) == (3 * bet + 1) \div 2

\* int(self.current_bet * 1.5): the float product truncated toward zero.
NaturalPayout(bet) ==
    IF bet >= 0 THEN (3 * bet) \div 2 ELSE -((3 * (-bet)) \div 2)

\* The natural-blackjack branch deal_initial_hands takes:
\* <<game_state, result_message, change of balance>>.
NaturalCase(player_total, dealer_total, bet) ==
    IF player_total = 21 /\ dealer_total # 21
    THEN <<"result", "Natural Blackjack! Player wins!", NaturalPayout(bet)>>
    ELSE IF dealer_total = 21 /\ player_total # 21
    THEN <<"result", "Dealer has Blackjack! Dealer wins.", -bet>>
    ELSE IF player_total = 21 /\ dealer_total = 21
    THEN <<"result", "Both have Blackjack! Push.", 0>>
    ELSE <<"playing", result_message, 0>>

deal_initial_hands ==
    LET n == Len(deck)
    IN  /\ err = "none"
        /\ ret' = Call("deal_initial_hands", <<>>, <<>>)
        /\ UNCHANGED <<config, current_bet>>
        /\ IF n >= 4
           THEN LET p == <<deck[n], deck[n - 1]>>
                    d == <<deck[n - 2], deck[n - 3]>>
                    c == NaturalCase(calculate_hand_value(p)[1],
                                     calculate_hand_value(d)[1], current_bet)
                IN  /\ player_hand' = p
                    /\ dealer_hand' = d
                    /\ deck' = SubSeq(deck, 1, n - 4)
                    /\ game_state' = c[1]
                    /\ result_message' = c[2]
                    /\ balance' = balance + c[3]
                    /\ UNCHANGED err
           ELSE \* Deck.deal raises on the (n+1)-th draw: a hand is assigned
                \* only once both of its cards were drawn.
                /\ err' = "ValueError"
                /\ deck' = <<>>
                /\ player_hand' = (IF n >= 2 THEN <<deck[n], deck[n - 1]>>
                                   ELSE player_hand)
                /\ UNCHANGED <<dealer_hand, game_state, result_message, balance>>

\* A hit also accepted once the round is over.
HitAllowed_AfterResult(state) == state \in {"playing", "result"}

\* if self.game_state != "playing": return "invalid", "Cannot hit now."
HitAllowed(state) == state = "playing"

player_hit ==
    /\ err = "none"
    /\ UNCHANGED <<config, current_bet, dealer_hand>>
    /\ IF ~HitAllowed(game_state)
       THEN /\ ret' = Call("player_hit", <<>>, <<"invalid", "Cannot hit now.">>)
            /\ UNCHANGED <<balance, deck, player_hand, game_state,
                           result_message, err>>
       ELSE IF deck = <<>>
       THEN /\ err' = "ValueError"
            /\ ret' = Call("player_hit", <<>>, <<>>)
            /\ UNCHANGED <<balance, deck, player_hand, game_state, result_message>>
       ELSE LET hand == Append(player_hand, DealCard(deck))
                player_total == calculate_hand_value(hand)[1]
                bust == "Player busts with " \o ToString(player_total)
                            \o ". Dealer wins."
            IN  /\ player_hand' = hand
                /\ deck' = DealRest(deck)
                /\ UNCHANGED err
                /\ IF player_total > 21
                   THEN /\ game_state' = "result"
                        /\ result_message' = bust
                        /\ balance' = balance - current_bet
                        /\ ret' = Call("player_hit", <<>>, <<"bust", bust>>)
                   ELSE /\ ret' = Call("player_hit", <<>>,
                                       <<"hit", "Hit! New total: "
                                                   \o ToString(player_total)>>)
                        /\ UNCHANGED <<game_state, result_message, balance>>

RECURSIVE DealerPlay(_, _)
\* while True: if dealer_total >= 17: break; dealer_hand.append(deck.deal())
DealerPlay(hand, cards) ==
    IF calculate_hand_value(hand)[1] >= 17
    THEN [hand |-> hand, cards |-> cards, raised |-> FALSE]
    ELSE IF cards = <<>>
    THEN [hand |-> hand, cards |-> cards, raised |-> TRUE]
    ELSE DealerPlay(Append(hand, DealCard(cards)), DealRest(cards))

\* The change of balance for a comparison's result.
Settle(result, bet) ==
    IF result = "win" THEN bet
    ELSE IF result = "lose" THEN -bet
    ELSE 0

\* The session's state after a stand, from the new balance.
SessionOutcome(bal, target) ==
    IF bal >= target THEN "won"
    ELSE IF bal <= 0 THEN "out_of_money"
    ELSE "result"

\* if self.game_state != "playing": return "invalid", "Cannot stand now."
StandAllowed(state) == state = "playing"

player_stand ==
    /\ err = "none"
    /\ UNCHANGED <<config, current_bet, player_hand>>
    /\ IF ~StandAllowed(game_state)
       THEN /\ ret' = Call("player_stand", <<>>, <<"invalid", "Cannot stand now.">>)
            /\ UNCHANGED <<balance, deck, dealer_hand, game_state,
                           result_message, err>>
       ELSE LET play == DealerPlay(dealer_hand, deck)
                c == compare_hands(calculate_hand_value(player_hand)[1],
                                   calculate_hand_value(play.hand)[1])
                bal == balance + Settle(c[1], current_bet)
                state == SessionOutcome(bal, target_balance)
            IN  /\ dealer_hand' = play.hand
                /\ deck' = play.cards
                /\ IF play.raised
                   THEN /\ err' = "ValueError"
                        /\ ret' = Call("player_stand", <<>>, <<>>)
                        /\ UNCHANGED <<balance, game_state, result_message>>
                   ELSE /\ balance' = bal
                        /\ game_state' = state
                        /\ result_message' =
                               (IF state = "out_of_money"
                                THEN c[2] \o " You are out of money!"
                                ELSE c[2])
                        /\ ret' = Call("player_stand", <<>>, <<"stand", c[2]>>)
                        /\ UNCHANGED err

\* A balance reset that keeps a low shoe.
RebuildIfLow_Keep(cards) == cards

\* if self.deck.remaining() < 10: self.deck = Deck()
RebuildIfLow(cards) ==
    IF remaining(cards) < 10 THEN NewDeck ELSE cards

reset_balance_on_broke ==
    /\ err = "none"
    /\ player_hand' = <<>>
    /\ dealer_hand' = <<>>
    /\ current_bet' = 0
    /\ result_message' = ""
    /\ balance' = starting_balance
    /\ game_state' = "betting"
    /\ deck' = RebuildIfLow(deck)
    /\ ret' = Call("reset_balance_on_broke", <<>>, <<>>)
    /\ UNCHANGED <<config, err>>

-----------------------------------------------------------------------------
(* window.py: the states the window calls each operation in *)

\* place_bet on RETURN while the bet input is active (state betting), then
\* deal_initial_hands if the bet succeeded; H and S in state playing; N in
\* state result or betting; the dialog's button while the state is
\* out_of_money.
InTurn(op) ==
    CASE op = "place_bet" -> game_state = "betting"
      [] op = "deal_initial_hands" -> game_state = "dealing"
      [] op = "player_hit" -> game_state = "playing"
      [] op = "player_stand" -> game_state = "playing"
      [] op = "reset_for_new_hand" -> game_state \in {"result", "betting"}
      [] op = "reset_balance_on_broke" -> game_state = "out_of_money"

\* A call of op: in turn, or one more of the bounded calls out of turn.
Turn(op) ==
    IF InTurn(op) THEN UNCHANGED out_of_turn
    ELSE /\ out_of_turn < MaxOutOfTurn
         /\ out_of_turn' = out_of_turn + 1

\* Every operation of the game, called in any state.
Next ==
    \/ \E amount \in Amounts :
          balance <= MaxBalance /\ Turn("place_bet") /\ place_bet(amount)
    \/ Turn("deal_initial_hands") /\ deal_initial_hands
    \/ Turn("player_hit") /\ player_hit
    \/ Turn("player_stand") /\ player_stand
    \/ Turn("reset_for_new_hand") /\ reset_for_new_hand
    \/ Turn("reset_balance_on_broke") /\ reset_balance_on_broke

Spec == Init /\ [][Next]_vars

\* The game's states.
GameStates == {"betting", "dealing", "playing", "result", "won", "out_of_money"}

TypeOK ==
    /\ mode \in Modes
    /\ game_state \in GameStates
    /\ balance \in Int /\ current_bet \in Nat
    /\ err \in {"none", "ValueError"}
    /\ out_of_turn \in 0..MaxOutOfTurn

\* Every order of the family is an order of the 52 cards.
OrdersOK == \A k \in 1..NumOrders : IsPermutation(ShuffleOrder(k), NewDeck)

-----------------------------------------------------------------------------
(* The claims.  A step whose call record names an operation is a call of   *)
(* that operation: every action writes its own name into ret.              *)

\* The total of a hand.
Total(cards) == calculate_hand_value(cards)[1]

GameOverMessage == "Game over. Reset balance to play again."

OutOfMoneyNote == " You are out of money!"

\* C1: in a wagering mode place_bet(amount) fails with the GameOver message
\* when balance <= 0, else with InvalidAmount when amount <= 0, else with
\* InsufficientBalance when amount > balance, and otherwise succeeds, sets
\* the wager to amount and the state to dealing; it returns a
\* (success, message) pair in every case and never raises.
C1_PlaceBetChecks ==
    [][(ret'.op = "place_bet" /\ mode # "practice") =>
         LET amount == ret'.args[1]
             r == ret'.val
         IN  /\ err' = "none"
             /\ Len(r) = 2
             /\ r[1] \in BOOLEAN
             /\ balance <= 0 => r = <<FALSE, GameOverMessage>>
             /\ (balance > 0 /\ amount <= 0) =>
                    r = <<FALSE, "Bet must be greater than 0.">>
             /\ (balance > 0 /\ amount > 0 /\ amount > balance) =>
                    r = <<FALSE, "Insufficient balance. You have "
                                    \o ToString(balance) \o ".">>
             /\ (balance > 0 /\ amount > 0 /\ amount <= balance) =>
                    /\ r[1] = TRUE
                    /\ current_bet' = amount
                    /\ game_state' = "dealing"
      ]_vars

\* C1's case: a bet above a positive balance was refused, the two earlier
\* checks having passed.
C1_Witness ==
    /\ ret.op = "place_bet"
    /\ mode # "practice"
    /\ balance > 0
    /\ ret.args[1] > balance
    /\ ret.val[1] = FALSE

\* C2: player_hit and player_stand called in any state other than playing
\* return 'invalid' and leave state, balance, wager, both hands, result
\* message and shoe unchanged.
C2_InvalidChangesNothing ==
    [][(ret'.op \in {"player_hit", "player_stand"} /\ game_state # "playing") =>
         /\ err' = "none"
         /\ Len(ret'.val) = 2
         /\ ret'.val[1] = "invalid"
         /\ UNCHANGED game
      ]_vars

\* C2's case: a hit was refused after the round had ended.
C2_Witness ==
    /\ ret.op = "player_hit"
    /\ game_state = "result"
    /\ ret.val = <<"invalid", "Cannot hit now.">>

\* C3: deal_initial_hands, having dealt its four cards, resolves naturals by
\* the two-card totals: player 21 and dealer not -> balance grows by
\* floor(wager * 1.5) and state result; dealer 21 and player not -> balance
\* falls by the wager and state result; both 21 -> balance unchanged and
\* state result; neither -> balance unchanged and state playing.
C3_NaturalCases ==
    [][(ret'.op = "deal_initial_hands" /\ err' = "none") =>
         LET p == Total(player_hand')
             d == Total(dealer_hand')
             gain == balance' - balance
         IN  /\ Len(player_hand') = 2
             /\ Len(dealer_hand') = 2
             /\ Len(deck') = Len(deck) - 4
             /\ (p = 21 /\ d # 21) =>
                    /\ 2 * gain <= 3 * current_bet
                    /\ 3 * current_bet < 2 * gain + 2
                    /\ game_state' = "result"
             /\ (d = 21 /\ p # 21) =>
                    (gain = -current_bet /\ game_state' = "result")
             /\ (p = 21 /\ d = 21) => (gain = 0 /\ game_state' = "result")
             /\ (p # 21 /\ d # 21) => (gain = 0 /\ game_state' = "playing")
      ]_vars

\* C3's case: a player natural was paid on an odd wager, where the 3:2
\* payout has a fraction to drop.
C3_Witness ==
    /\ ret.op = "deal_initial_hands"
    /\ game_state = "result"
    /\ Total(player_hand) = 21
    /\ Total(dealer_hand) # 21
    /\ current_bet = 1
    /\ mode = "classic"

\* A call of player_hit, or of player_stand, in state playing.
ValidHit == ret'.op = "player_hit" /\ game_state = "playing"

ValidStand == ret'.op = "player_stand" /\ game_state = "playing"

\* What a valid hit does: one card from the end of the shoe to the player,
\* then bust or hit by the new total.
HitContract ==
    /\ deck # <<>>
    /\ player_hand' = Append(player_hand, deck[Len(deck)])
    /\ deck' = SubSeq(deck, 1, Len(deck) - 1)
    /\ UNCHANGED <<dealer_hand, current_bet>>
    /\ IF Total(player_hand') > 21
       THEN /\ balance' = balance - current_bet
            /\ game_state' = "result"
            /\ ret'.val[1] = "bust"
       ELSE /\ balance' = balance
            /\ game_state' = "playing"
            /\ ret'.val[1] = "hit"

\* C4: in normal operation player_hit in state playing draws exactly one
\* card from the shoe into the player's hand (dealer hand and wager
\* unchanged); a new total above 21 lowers the balance by the wager, makes
\* the state result and returns 'bust'; otherwise state and balance stay
\* and it returns 'hit'.
C4_HitDrawsOneCard ==
    [][(ValidHit /\ out_of_turn' = 0) => HitContract]_vars

\* The dealer's hand grew by cards drawn from the end of the shoe.
DealerDrew ==
    LET n == Len(dealer_hand)
        m == Len(dealer_hand')
    IN  /\ m >= n
        /\ SubSeq(dealer_hand', 1, n) = dealer_hand
        /\ Len(deck') = Len(deck) - (m - n)
        /\ deck' = SubSeq(deck, 1, Len(deck'))
        /\ \A i \in 1..(m - n) : dealer_hand'[n + i] = deck[Len(deck) + 1 - i]

\* The dealer drew exactly while below 17 and ended at 17 or more.
DealerContract ==
    /\ DealerDrew
    /\ \A j \in Len(dealer_hand)..(Len(dealer_hand') - 1) :
           Total(SubSeq(dealer_hand', 1, j)) < 17
    /\ Total(dealer_hand') >= 17

\* C5: in normal operation, on a player_stand in state playing the dealer
\* draws a card exactly while the dealer's total is below 17: every hand
\* the dealer drew on had a total below 17, and the hand after the
\* play-out has a total of 17 or more (so a dealer at 17 or more, soft 17
\* too, draws nothing and a dealer at 16 or less draws at least once).
C5_DealerDrawsBelow17 ==
    [][(ValidStand /\ out_of_turn' = 0) => DealerContract]_vars

\* The balance moved by the comparison of the two totals, and by it only.
SettleContract ==
    LET c == compare_hands(Total(player_hand), Total(dealer_hand'))[1]
    IN  /\ c = "win" => balance' = balance + current_bet
        /\ c = "lose" => balance' = balance - current_bet
        /\ c \in {"push", "bust"} => balance' = balance
        /\ UNCHANGED <<player_hand, current_bet>>

\* C6: in normal operation, on a player_stand in state playing the balance
\* changes by compare(player total, dealer total) only: +wager on win,
\* -wager on lose, nothing on push or bust; the player's hand and the wager
\* are unchanged.
C6_StandSettlesByCompare ==
    [][(ValidStand /\ out_of_turn' = 0) => SettleContract]_vars

\* The state after the stand by the new balance, won first, and the note
\* on the message exactly with out_of_money.
OutcomeContract ==
    /\ game_state' = (IF balance' >= target_balance THEN "won"
                      ELSE IF balance' <= 0 THEN "out_of_money"
                      ELSE "result")
    /\ Len(ret'.val) = 2
    /\ result_message' = (IF game_state' = "out_of_money"
                          THEN ret'.val[2] \o OutOfMoneyNote
                          ELSE ret'.val[2])

\* C7: in normal operation, after a player_stand in state playing the state
\* is won if balance >= target_balance, otherwise out_of_money if
\* balance <= 0, otherwise result, and the out-of-money note ends the
\* result message exactly when the state is out_of_money.
C7_StateAfterStand ==
    [][(ValidStand /\ out_of_turn' = 0) => OutcomeContract]_vars

\* C4 to C7 fail on the exhausted shoe alone: each contract holds of every
\* valid hit and stand that returns, in turn or out of turn.
ReturningHit == [][(ValidHit /\ err' = "none") => HitContract]_vars

ReturningStand ==
    [][(ValidStand /\ err' = "none") =>
         (DealerContract /\ SettleContract /\ OutcomeContract)]_vars

\* C8: in normal operation (rounds driven as place_bet, deal_initial_hands,
\* hits, player_stand, then a reset) Deck.deal is never called on an empty
\* shoe: no ValueError is raised.
C8_NeverEmptyShoe == out_of_turn = 0 => err = "none"

\* C9: in a wagering mode, once the balance is 0 or below it stays so
\* through every operation but reset_balance_on_broke, and every place_bet
\* made meanwhile fails with GameOver.
C9_GameOverUntilReset ==
    [][(mode # "practice" /\ balance <= 0 /\ ret'.op # "reset_balance_on_broke") =>
         /\ balance' <= 0
         /\ ret'.op = "place_bet" => ret'.val = <<FALSE, GameOverMessage>>
      ]_vars

\* C10: once the state is out_of_money, no operation but
\* reset_balance_on_broke changes it.
C10_OnlyResetLeavesOutOfMoney ==
    [][(game_state = "out_of_money" /\ ret'.op # "reset_balance_on_broke") =>
         game_state' = "out_of_money"
      ]_vars

\* The set of the cards of a list.
CardsOf(cards) == {cards[i] : i \in 1..Len(cards)}

\* The 52 rank-suit combinations.
AllCards ==
    {Card(Suits[i], Ranks[j]) : i \in 1..Len(Suits), j \in 1..Len(Ranks)}

\* The cards of a list are the 52 of a fresh deck, in some order.
FullShoe(cards) == Len(cards) = 52 /\ CardsOf(cards) = AllCards

\* C11: reset_for_new_hand leaves both hands empty, the wager 0, the result
\* message empty and the state betting; balance, starting balance, target
\* balance and mode are unchanged; the shoe is unchanged when it held 10 or
\* more cards and is a full 52-card shoe otherwise, so it holds at least 10
\* cards after the reset.
C11_ResetForNewHand ==
    [][ret'.op = "reset_for_new_hand" =>
         /\ err' = "none"
         /\ player_hand' = <<>>
         /\ dealer_hand' = <<>>
         /\ current_bet' = 0
         /\ result_message' = ""
         /\ game_state' = "betting"
         /\ UNCHANGED <<balance, starting_balance, target_balance, mode>>
         /\ IF Len(deck) >= 10 THEN deck' = deck
            ELSE Len(deck') = 52 /\ FullShoe(deck')
         /\ Len(deck') >= 10
      ]_vars

\* C11's case: a reset has just replaced a low shoe.  The shoe is full
\* though cards were drawn since the game began (the balance has moved, and
\* reset_balance_on_broke, the other rebuild, would have restored it).
C11_Witness ==
    /\ ret.op = "reset_for_new_hand"
    /\ Len(deck) = 52
    /\ balance # starting_balance
    /\ player_hand = <<>>
    /\ game_state = "betting"

\* C12: reset_balance_on_broke sets the balance to the starting balance,
\* clears both hands, the wager and the result message, sets the state to
\* betting and rebuilds the shoe to 52 cards if fewer than 10 remained; a
\* place_bet that follows it, in a wagering mode with a positive starting
\* balance and with 0 < amount <= starting balance, succeeds.
C12_ResetBalanceOnBroke ==
    [][/\ ret'.op = "reset_balance_on_broke" =>
            /\ err' = "none"
            /\ balance' = starting_balance
            /\ player_hand' = <<>>
            /\ dealer_hand' = <<>>
            /\ current_bet' = 0
            /\ result_message' = ""
            /\ game_state' = "betting"
            /\ IF Len(deck) < 10 THEN Len(deck') = 52 /\ FullShoe(deck')
               ELSE deck' = deck
       /\ (/\ ret.op = "reset_balance_on_broke"
           /\ ret'.op = "place_bet"
           /\ mode # "practice"
           /\ starting_balance > 0
           /\ ret'.args[1] > 0
           /\ ret'.args[1] <= starting_balance) =>
            /\ ret'.val[1] = TRUE
            /\ current_bet' = ret'.args[1]
            /\ game_state' = "dealing"
      ]_vars

\* C12's case: a bet has succeeded on the shoe a balance reset rebuilt.  The
\* shoe is in build order, which no shuffle leaves, so no card was drawn
\* since reset_balance_on_broke replaced it.
C12_Witness ==
    /\ ret.op = "place_bet"
    /\ ret.val[1] = TRUE
    /\ mode = "classic"
    /\ deck = NewDeck
    /\ balance = starting_balance
    /\ current_bet > 0

\* C13: in normal operation, every time reset_for_new_hand or
\* reset_balance_on_broke replaces the shoe, the new shoe is a fresh deck as
\* a shuffle left it, and no card is ever drawn from a full shoe in build
\* order.
C13_ReplacedShoeShuffled ==
    [][out_of_turn' = 0 =>
         /\ (ret'.op \in {"reset_for_new_hand", "reset_balance_on_broke"}
              /\ deck' # deck) =>
              \E k \in 1..NumOrders : deck' = shuffle(NewDeck, k)
         /\ Len(deck') < Len(deck) => deck # NewDeck
      ]_vars

\* Between 0 and 52 cards, all of them cards of the deck, none twice.
ShoeOK(cards) ==
    /\ Len(cards) \in 0..52
    /\ CardsOf(cards) \subseteq AllCards
    /\ Cardinality(CardsOf(cards)) = Len(cards)

\* A newly built shoe is the 52 distinct combinations, and every shuffle of
\* it has the same cards and the same count.
BuildAndShuffleOK ==
    /\ Len(NewDeck) = 52
    /\ CardsOf(NewDeck) = AllCards
    /\ Cardinality(AllCards) = 52
    /\ \A k \in 1..NumOrders :
          /\ Len(shuffle(NewDeck, k)) = Len(NewDeck)
          /\ CardsOf(shuffle(NewDeck, k)) = CardsOf(NewDeck)

\* The cards the two hands gained in a step.
HandsGained ==
    IF ret'.op = "deal_initial_hands"
    THEN Len(player_hand') + Len(dealer_hand')
    ELSE (Len(player_hand') - Len(player_hand))
            + (Len(dealer_hand') - Len(dealer_hand))

\* C14: in every reachable state the shoe holds between 0 and 52 cards and
\* no card twice; a step that draws takes the cards off the end of the
\* shoe, one per card drawn (the count falls by exactly the number of cards
\* the hands gained); a shoe that is replaced is the 52 distinct rank-suit
\* combinations; shuffle changes neither membership nor count.
C14_ShoeIntegrity ==
    /\ BuildAndShuffleOK
    /\ ShoeOK(deck)
    /\ [][/\ ShoeOK(deck')
           /\ IF ret'.op \in {"reset_for_new_hand", "reset_balance_on_broke"}
              THEN deck' = deck
                      \/ FullShoe(deck')
              ELSE /\ Len(deck') <= Len(deck)
                   /\ deck' = SubSeq(deck, 1, Len(deck'))
                   /\ err' = "none" => Len(deck) - Len(deck') = HandsGained
          ]_vars

\* C14's case: draws have taken the shoe down to its last card and then to
\* none, without an error.
C14_Witness ==
    /\ Len(deck) = 0
    /\ err = "none"
    /\ ret.op \in {"player_hit", "player_stand"}
    /\ Len(player_hand) + Len(dealer_hand) >= 10

-----------------------------------------------------------------------------
(* hand_logic.py on its own: calculate_hand_value applied to every hand of *)
(* up to MaxHandLen cards of one deck.  The function sums and counts, so a *)
(* hand is taken in one order only, its ranks ascending in the order of    *)
(* Rank; the j-th card of a rank gets the j-th suit.                       *)

RECURSIVE AscendingRanks(_, _)
\* The sequences of n indices into Ranks, none below lo, ascending.
AscendingRanks(n, lo) ==
    IF n = 0 THEN {<<>>}
    ELSE UNION {{<<i>> \o s : s \in AscendingRanks(n - 1, i)} :
                    i \in lo..Len(Ranks)}

\* The hand with the ranks of an index sequence.
HandOf(idx) ==
    [i \in 1..Len(idx) |-> Card(Suits[Occurrence(idx, i)], Ranks[idx[i]])]

\* The hands of up to MaxHandLen cards, no rank more than four times.
Hands ==
    {HandOf(idx) :
        idx \in {s \in UNION {AscendingRanks(n, 1) : n \in 0..MaxHandLen} :
                    \A i \in 1..Len(s) : Occurrence(s, i) <= Len(Suits)}}

\* A game before its first call, holding the hand to evaluate.
InitValue ==
    /\ mode = "classic"
    /\ starting_balance = StartBalance
    /\ target_balance = TargetBalance
    /\ balance = starting_balance
    /\ out_of_turn = 0
    /\ current_bet = 0
    /\ deck = NewDeck
    /\ player_hand \in Hands
    /\ dealer_hand = <<>>
    /\ game_state = "betting"
    /\ result_message = ""
    /\ ret = Call("__init__", <<>>, <<>>)
    /\ err = "none"

\* calculate_hand_value(self.player_hand)
Evaluate ==
    /\ ret.op = "__init__"
    /\ ret' = Call("calculate_hand_value", <<player_hand>>,
                   calculate_hand_value(player_hand))
    /\ UNCHANGED <<game, err, out_of_turn>>

SpecValue == InitValue /\ [][Evaluate]_vars

\* The values a card may count for: an Ace 11 or 1, any other its value.
CardValues(card) == IF card.rank = "A" THEN {1, 11} ELSE {base_value(card.rank)}

RECURSIVE PossibleTotals(_)
\* Every total a hand has under some counting of its Aces.
PossibleTotals(cards) ==
    IF cards = <<>> THEN {0}
    ELSE {v + t : v \in CardValues(Head(cards)), t \in PossibleTotals(Tail(cards))}

\* The largest and the smallest of a set of totals.
Largest(T) == CHOOSE t \in T : \A u \in T : u <= t

Smallest(T) == CHOOSE t \in T : \A u \in T : t <= u

\* The best blackjack total: the largest possible total not above 21, or
\* the smallest possible total when every one is above 21.
BestTotal(cards) ==
    LET T == PossibleTotals(cards)
        ok == {t \in T : t <= 21}
    IN  IF ok # {} THEN Largest(ok) ELSE Smallest(T)

\* C15: for every hand, calculate_hand_value returns the best blackjack
\* total: the largest total not above 21 obtainable by counting each Ace
\* as 11 or 1 when there is one, and the total with every Ace counted as 1
\* otherwise.
C15_BestTotal ==
    ret.op = "calculate_hand_value" =>
        ret.val[1] = BestTotal(ret.args[1])

\* C15's case: four Aces and a 10 were evaluated to 14.
C15_Witness ==
    /\ ret.op = "calculate_hand_value"
    /\ Len(ret.args[1]) = 5
    /\ NumAces(ret.args[1]) = 4
    /\ \E i \in 1..5 : ret.args[1][i].rank = "10"
    /\ ret.val[1] = 14

RECURSIVE Countings(_)
\* Every counting of a hand's Aces: <<total, Aces counted as 11>>.
Countings(cards) ==
    IF cards = <<>> THEN {<<0, 0>>}
    ELSE {<<v + c[1], c[2] + (IF v = 11 /\ Head(cards).rank = "A" THEN 1 ELSE 0)>> :
            v \in CardValues(Head(cards)), c \in Countings(Tail(cards))}

\* The ranks of a hand.
RanksOf(cards) == [i \in 1..Len(cards) |-> cards[i].rank]

\* C16: for every hand, the soft flag calculate_hand_value returns is true
\* iff the returned total counts at least one Ace as 11; a King and an Ace
\* give (21, true), two Aces give (12, true), a hand without Aces is never
\* soft and a soft hand never has a total above 21.
C16_SoftFlag ==
    ret.op = "calculate_hand_value" =>
        LET hand == ret.args[1]
            total == ret.val[1]
            soft == ret.val[2]
        IN  /\ soft \in BOOLEAN
            /\ soft <=> \E c \in Countings(hand) : c[1] = total /\ c[2] >= 1
            /\ RanksOf(hand) = <<"K", "A">> => ret.val = <<21, TRUE>>
            /\ RanksOf(hand) = <<"A", "A">> => ret.val = <<12, TRUE>>
            /\ NumAces(hand) = 0 => ~soft
            /\ soft => total <= 21

\* C16's case: two Aces were evaluated to a soft 12, one Ace converted and
\* one still counted as 11.
C16_Witness ==
    /\ ret.op = "calculate_hand_value"
    /\ RanksOf(ret.args[1]) = <<"A", "A">>
    /\ ret.val = <<12, TRUE>>

-----------------------------------------------------------------------------
(* hand_logic.py on its own: compare_hands applied to every pair of totals *)
(* from 0 to MaxTotal.                                                     *)

\* A game before its first call, with no hand to evaluate.
InitCompare == InitValue /\ player_hand = <<>>

\* compare_hands(player_total, dealer_total)
Compare ==
    /\ ret.op = "__init__"
    /\ \E player_total \in 0..MaxTotal, dealer_total \in 0..MaxTotal :
          ret' = Call("compare_hands", <<player_total, dealer_total>>,
                      compare_hands(player_total, dealer_total))
    /\ UNCHANGED <<game, err, out_of_turn>>

SpecCompare == InitCompare /\ [][Compare]_vars

\* C17: compare_hands yields exactly one outcome for every pair of totals:
\* bust whenever the player's total is above 21, whatever the dealer's;
\* otherwise win when the dealer's total is above 21; otherwise push iff the
\* totals are equal, win if the player's is larger and lose if smaller.
C17_CompareTotal ==
    ret.op = "compare_hands" =>
        LET p == ret.args[1]
            d == ret.args[2]
            r == ret.val[1]
        IN  /\ Len(ret.val) = 2
            /\ r \in {"bust", "win", "push", "lose"}
            /\ p > 21 => r = "bust"
            /\ (p <= 21 /\ d > 21) => r = "win"
            /\ (p <= 21 /\ d <= 21) =>
                  /\ r = "push" <=> p = d
                  /\ p > d => r = "win"
                  /\ p < d => r = "lose"

\* C17's case: both totals above 21 were compared, and the player's bust
\* decided.
C17_Witness ==
    /\ ret.op = "compare_hands"
    /\ ret.args[1] > 21
    /\ ret.args[2] > 21
    /\ ret.val[1] = "bust"

-----------------------------------------------------------------------------
(* The session's states and the edges between them.                        *)

\* The edges of the state machine: the operation that takes each, with its
\* call record.
Edge(from, to, call) ==
    \/ /\ from = "betting" /\ to = "dealing"
       /\ call.op = "place_bet" /\ call.val[1] = TRUE
    \/ /\ from = "dealing" /\ to \in {"playing", "result"}
       /\ call.op = "deal_initial_hands"
    \/ /\ from = "playing" /\ to = "result"
       /\ call.op = "player_hit" /\ call.val[1] = "bust"
    \/ /\ from = "playing" /\ to \in {"result", "won", "out_of_money"}
       /\ call.op = "player_stand"
    \/ /\ from \in {"result", "won", "out_of_money"} /\ to = "betting"
       /\ call.op \in {"reset_for_new_hand", "reset_balance_on_broke"}

\* C18: the state is always one of betting, dealing, playing, result, won,
\* out_of_money, and every step that changes it follows an edge: betting ->
\* dealing by a successful place_bet, dealing -> playing or result by
\* deal_initial_hands, playing -> result by a bust on player_hit, playing ->
\* result, won or out_of_money by player_stand, and result, won or
\* out_of_money -> betting by a reset.
C18_OnlyListedEdges ==
    /\ [](game_state \in GameStates)
    /\ [][game_state' # game_state => Edge(game_state, game_state', ret')]_vars

\* The same edges, for calls made in the state the window makes them in.
EdgesInTurn ==
    [][(out_of_turn' = 0 /\ game_state' # game_state)
         => Edge(game_state, game_state', ret')]_vars

-----------------------------------------------------------------------------
(* Practice mode.                                                          *)

\* C19: practice mode is wager-free.  place_bet succeeds for every amount
\* and every balance, sets the wager to 0 and the state to dealing; and in
\* practice mode, whatever operations are called, the wager is 0 and the
\* balance equals the starting balance.
C19_PracticeWagerFree ==
    /\ [](mode = "practice" => current_bet = 0 /\ balance = starting_balance)
    /\ [][(mode = "practice" /\ ret'.op = "place_bet") =>
            /\ ret'.val[1] = TRUE
            /\ current_bet' = 0
            /\ game_state' = "dealing"]_vars

\* C19's case: after earlier rounds in practice mode, with a balance that
\* is not positive, a bet of an amount above the balance succeeded.
C19_Witness ==
    /\ mode = "practice"
    /\ Len(deck) < 48
    /\ balance <= 0
    /\ ret.op = "place_bet"
    /\ ret.args[1] > balance
    /\ ret.val[1] = TRUE
    /\ current_bet = 0
    /\ game_state = "dealing"

-----------------------------------------------------------------------------
(* The dealer's loop.                                                      *)

\* C20: in normal operation every player_stand in state playing returns:
\* the dealer's loop ends, after as many draws as cards left the shoe, with
\* a dealer total of 17 or more, and Deck.deal is never called on an empty
\* shoe.
C20_StandTerminates ==
    [][(ValidStand /\ out_of_turn' = 0) =>
         /\ err' = "none"
         /\ ret'.val # <<>>
         /\ ret'.val[1] = "stand"
         /\ Total(dealer_hand') >= 17
         /\ Len(dealer_hand') - Len(dealer_hand) = Len(deck) - Len(deck')]_vars

-----------------------------------------------------------------------------
(* One pass of the dealer's loop on its own: every dealer hand of up to    *)
(* MaxHandLen cards with a total below 17, and every rank drawn next.      *)

\* How many cards of a rank a hand holds.
Held(cards, rank) == Cardinality({i \in 1..Len(cards) : cards[i].rank = rank})

\* The cards that may come next after a hand of Hands, one of each rank the
\* hand does not hold four times: the rank's next suit.
NextCards(cards) ==
    {Card(Suits[Held(cards, Ranks[k]) + 1], Ranks[k]) :
        k \in {j \in 1..Len(Ranks) : Held(cards, Ranks[j]) < Len(Suits)}}

\* A round at player_stand: the dealer's hand below 17, one card on the shoe.
InitDraw ==
    /\ mode = "classic"
    /\ starting_balance = StartBalance
    /\ target_balance = TargetBalance
    /\ balance = starting_balance
    /\ out_of_turn = 0
    /\ current_bet = 0
    /\ player_hand = <<>>
    /\ dealer_hand \in {h \in Hands : calculate_hand_value(h)[1] < 17}
    /\ deck \in {<<c>> : c \in NextCards(dealer_hand)}
    /\ game_state = "playing"
    /\ result_message = ""
    /\ ret = Call("__init__", <<>>, <<>>)
    /\ err = "none"

\* One pass of the loop: dealer_total < 17, so
\* self.dealer_hand.append(self.deck.deal())
DealerDraws ==
    /\ ret.op = "__init__"
    /\ calculate_hand_value(dealer_hand)[1] < 17
    /\ deck # <<>>
    /\ dealer_hand' = Append(dealer_hand, DealCard(deck))
    /\ deck' = DealRest(deck)
    /\ ret' = Call("deal", <<>>, <<DealCard(deck)>>)
    /\ UNCHANGED <<config, balance, current_bet, player_hand, game_state,
                   result_message, err, out_of_turn>>

SpecDraw == InitDraw /\ [][DealerDraws]_vars

\* The sum of a hand with every Ace counted as 1.
LowSum(cards) == Smallest(PossibleTotals(cards))

\* C21 as stated: every draw of the dealer's loop leaves the dealer's
\* evaluated total at least what it was before the draw.
C21_TotalNonDecreasing ==
    [][ret'.op = "deal" => Total(dealer_hand') >= Total(dealer_hand)]_vars

\* C21 amended: a draw onto a hand below 17 raises its total unless the
\* hand is soft and the draw takes it above 21; then its Ace is recounted
\* as 1 and the total may fall, by 4 at most, to a hand that is no longer
\* soft.  The sum with every Ace counted as 1 grows with every draw.
C21_LowSumIncreasing ==
    [][ret'.op = "deal" =>
         LET before == calculate_hand_value(dealer_hand)
             after == calculate_hand_value(dealer_hand')
         IN  /\ LowSum(dealer_hand') > LowSum(dealer_hand)
             /\ ~before[2] => after[1] > before[1]
             /\ after[1] >= before[1] - 4
             /\ after[1] < before[1] => (before[2] /\ ~after[2])
      ]_vars

\* C21's case: the dealer drew a 9 onto a soft 13 and holds a hard 12.
C21_Witness ==
    /\ ret.op = "deal"
    /\ RanksOf(dealer_hand) = <<"2", "A", "9">>
    /\ Total(dealer_hand) = 12

-----------------------------------------------------------------------------
(* The result message.                                                     *)

\* The states a round ends in.
EndStates == {"result", "won", "out_of_money"}

\* C22: in every reachable state the result message is non-empty iff the
\* state is result, won or out_of_money; it is empty in betting, dealing
\* and playing.
C22_MessageOnlyAtEnd ==
    (result_message # "") <=> (game_state \in EndStates)

\* The same, for calls made in the state the window makes them in.
MessageInTurn ==
    out_of_turn = 0 => ((result_message # "") <=> (game_state \in EndStates))

-----------------------------------------------------------------------------
(* The window's way back to betting.                                       *)

\* Some input of the game screen calls a reset in the current state: the N
\* key (reset_for_new_hand) or the dialog's button (reset_balance_on_broke).
ResetOffered ==
    InTurn("reset_for_new_hand") \/ InTurn("reset_balance_on_broke")

\* C23: in the window-driven flow, in each of the states result, won and
\* out_of_money some input triggers a reset, and that reset returns the
\* game to betting.
C23_ResetFromEveryEnd ==
    /\ []((out_of_turn = 0 /\ err = "none" /\ game_state \in EndStates)
            => ResetOffered)
    /\ [][(out_of_turn' = 0 /\ game_state \in EndStates
            /\ ret'.op \in {"reset_for_new_hand", "reset_balance_on_broke"})
            => game_state' = "betting"]_vars

-----------------------------------------------------------------------------
(* Running out of money.                                                   *)

\* update(): the out-of-money dialog is created when the state is
\* out_of_money (and closed when it is not).
DialogOpensAtUpdate == game_state = "out_of_money"

\* C24: in a wagering mode, in the window-driven flow, whenever a round ends
\* with balance <= 0 (by a stand, a bust on player_hit or a dealer natural)
\* the state becomes out_of_money and the window's next update opens the
\* out-of-money dialog, which offers reset_balance_on_broke.
C24_BrokeOpensDialog ==
    [][(/\ out_of_turn' = 0
        /\ mode # "practice"
        /\ ret'.op \in {"deal_initial_hands", "player_hit", "player_stand"}
        /\ game_state \notin EndStates
        /\ game_state' \in EndStates
        /\ balance' <= 0)
        => /\ game_state' = "out_of_money"
           /\ DialogOpensAtUpdate'
           /\ InTurn("reset_balance_on_broke")']_vars

\* A lost stand does end in out_of_money.
BrokeByStand ==
    [][(out_of_turn' = 0 /\ mode # "practice" /\ ret'.op = "player_stand"
        /\ game_state = "playing" /\ err' = "none" /\ balance' <= 0
        /\ balance' < target_balance)
        => DialogOpensAtUpdate']_vars

-----------------------------------------------------------------------------
(* The state playing.                                                      *)

BustMessage == "Bust! Dealer wins."

\* C25: in every reachable state with state playing both hands hold at least
\* two cards and the player's total is at most 21; so the comparison of a
\* player_stand in state playing never has the outcome bust.
C25_PlayingHandsSound ==
    /\ [](game_state = "playing" =>
            /\ Len(player_hand) >= 2
            /\ Len(dealer_hand) >= 2
            /\ BestTotal(player_hand) <= 21)
    /\ [][(ValidStand /\ err' = "none") =>
            /\ BestTotal(player_hand') <= 21
            /\ ret'.val[2] # BustMessage
            /\ result_message' \notin {BustMessage, BustMessage \o OutOfMoneyNote}
       ]_vars

\* C25's case: the player stood on 21 reached by hitting.
C25_Witness ==
    /\ ret.op = "player_stand"
    /\ ret.val # <<>>
    /\ ret.val[1] = "stand"
    /\ Len(player_hand) >= 3
    /\ BestTotal(player_hand) = 21

-----------------------------------------------------------------------------
(* The balance.                                                            *)

\* C26: in a wagering mode with a non-negative starting balance the balance
\* is never negative: a successful bet is at most the balance, and the
\* wager is taken from the balance at most once before the next bet.
C26_BalanceNeverNegative ==
    (mode # "practice" /\ starting_balance >= 0) => balance >= 0

\* The same, for calls made in the state the window makes them in.
BalanceInTurn ==
    (out_of_turn = 0 /\ mode # "practice" /\ starting_balance >= 0)
        => balance >= 0

-----------------------------------------------------------------------------
(* The cards in play.                                                      *)

\* Every card of the session in one list: both hands, then the shoe.
InPlay == player_hand \o dealer_hand \o deck

\* C27: in every reachable state the cards of the player's hand, the
\* dealer's hand and the shoe are pairwise distinct cards of the deck: no
\* (rank, suit) is in two of these places or twice in one, also after the
\* shoe was rebuilt.
C27_CardsDistinct ==
    /\ CardsOf(InPlay) \subseteq AllCards
    /\ Cardinality(CardsOf(InPlay)) = Len(InPlay)

\* C27's case: four cards were dealt from a shoe rebuilt by
\* reset_balance_on_broke.
C27_Witness ==
    /\ ret.op = "deal_initial_hands"
    /\ deck = SubSeq(NewDeck, 1, 48)
    /\ Len(player_hand) = 2
    /\ Len(dealer_hand) = 2

-----------------------------------------------------------------------------
(* A bet that fails.                                                       *)

\* The messages place_bet fails with, at a balance.
FailureMessages(bal) ==
    {GameOverMessage, "Bet must be greater than 0.",
     "Insufficient balance. You have " \o ToString(bal) \o "."}

\* C28: a place_bet that fails leaves the whole session unchanged: state,
\* balance, wager, both hands, result message and shoe are what they were
\* before the call; and a bet fails, with one of the three messages and
\* without raising, whenever in a wagering mode the balance is not positive
\* or the amount is not positive or above the balance.
C28_FailedBetChangesNothing ==
    [][ret'.op = "place_bet" =>
         /\ err' = "none"
         /\ (mode # "practice" /\ (balance <= 0 \/ ret'.args[1] <= 0
                                    \/ ret'.args[1] > balance))
              => ret'.val[1] = FALSE
         /\ ret'.val[1] = FALSE =>
              /\ ret'.val[2] \in FailureMessages(balance)
              /\ UNCHANGED <<game_state, balance, current_bet, player_hand,
                             dealer_hand, result_message, deck>>
      ]_vars

\* C28's case: with cards on the table and a positive balance, a bet of more
\* than the balance was refused.
C28_Witness ==
    /\ ret.op = "place_bet"
    /\ ret.val[1] = FALSE
    /\ balance > 0
    /\ ret.args[1] > balance
    /\ Len(player_hand) >= 2
    /\ result_message # ""

-----------------------------------------------------------------------------
(* The wager of a round.                                                   *)

Resets == {"reset_for_new_hand", "reset_balance_on_broke"}

\* C29: once a bet has succeeded the wager stays what it is until the next
\* reset: a positive wager is the wager of a successful bet not yet reset,
\* and no operation other than a reset changes it.
C29_WagerFixedInRound ==
    [][(current_bet > 0 /\ ret'.op \notin Resets)
         => current_bet' = current_bet]_vars

\* The same, for calls made in the state the window makes them in.
WagerInTurn ==
    [][(out_of_turn' = 0 /\ current_bet > 0 /\ ret'.op \notin Resets)
         => current_bet' = current_bet]_vars

-----------------------------------------------------------------------------
(* The end of a practice round.                                            *)

\* C30: in practice mode no operation moves the state to won or to
\* out_of_money, and every round that ends, ends in state result.
C30_PracticeEndsInResult ==
    /\ [](mode = "practice" => game_state \notin {"won", "out_of_money"})
    /\ [][(mode = "practice" /\ game_state \notin EndStates
            /\ game_state' \in EndStates) => game_state' = "result"]_vars

====
